---- MODULE Spec2Model ----
(***************************************************************************)
(* Model of the glimmr-api Airflow DAG definitions.                        *)
(*                                                                         *)
(* Part I  : trigger_airbyte_sync / wait_for_sync_completion               *)
(*           (airbyte_integration_example.py), the submit-and-poll loop.   *)
(* Part II : the task graphs declared with >> in the three DAG files and   *)
(*           their execution by the scheduler described in the design.     *)
(***************************************************************************)
EXTENDS Integers, Sequences, FiniteSets, TLC

(***************************************************************************)
(* Part I: submit and poll                                                 *)
(***************************************************************************)

\* wait_for_sync_completion: max_wait_time = 3600, check_interval = 30
max_wait_time == 3600
check_interval == 30

\* How many times the submit-and-poll body is run one after the other.
MaxRuns == 2
\* Job ids the external system may hand out.
MaxJobId == 2

JobIds == 1..MaxJobId

\* What one GET /api/v1/jobs/{job_id} can produce: a 200 response carrying
\* one of the status strings (anything unrecognised is "unknown"), a
\* response with another status code, or an exception raised by the request.
StatusResponses ==
    {"succeeded", "failed", "pending", "running", "unknown", "non200", "exception"}

\* What the POST /api/v1/jobs can produce.
SubmitResponses == {"ok200", "non200", "exception"}

VARIABLES
    pc,            \* "idle" | "submitting" | "polling" | "requesting" |
                   \* "sleeping" | "done" ("reported" under the executor)
    job_id,        \* the id returned by trigger_airbyte_sync (0: none)
    elapsed_time,  \* local of wait_for_sync_completion
    outcome,       \* [kind, job]: how the body ended ("none" while it runs)
    submissions,   \* POST requests issued in this run
    checks,        \* status checks (GET requests) issued in this run
    sleeps,        \* time.sleep(check_interval) calls made in this run
    slept,         \* time.sleep(check_interval) calls that have returned
    run,           \* which run of the body this is (1..MaxRuns)
    firstObs,      \* what the first status check of this run produced
    lastObs,       \* what the latest status check of this run produced
    sawSucceeded,  \* some check of this run produced "succeeded"
    sawFailed,     \* some check of this run produced "failed"
    onlyRunning,   \* every check of this run produced "running"
    immRuns,       \* finished runs whose first check produced "succeeded"
    immSubmits,    \* POST requests issued in those runs
    immChecks,     \* status checks issued in those runs
    \* Part II
    dag,           \* the DAG being run
    added,         \* an edge added to the declared ones (<<>>: none)
    worker_budget, \* how many tasks may execute at the same time
    runState,      \* "Unbuilt" | "CycleError" | "NotStarted" | "Running" |
                   \* "Completed" | "Failed"
    status,        \* task -> Pending | Running | Succeeded | Failed | Skipped
    attempts,      \* task -> number of times its body was invoked
    result,        \* task -> what its body returned ("not_run": nothing yet)
    order          \* the tasks in the order they Succeeded or Failed

pollVars ==
    <<pc, job_id, elapsed_time, outcome, submissions, checks, sleeps, slept,
      run, firstObs, lastObs, sawSucceeded, sawFailed, onlyRunning,
      immRuns, immSubmits, immChecks>>

schedVars == <<dag, added, worker_budget, runState, status, attempts, result, order>>

vars == <<pollVars, schedVars>>

\* Variant: no retries.
default_args_NoRetries == [retries |-> 0, retry_delay |-> 5]

\* default_args of the three DAG files: retries and retry_delay (minutes).
default_args == [retries |-> 1, retry_delay |-> 5]

retries == default_args.retries

NoOutcome == [kind |-> "none", job |-> 0]

\* trigger_airbyte_sync: a 200 response returns the job id; any other
\* response raises inside the try, and the handler prints and re-raises.
TriggerResult(resp) ==
    IF resp = "ok200" THEN "return" ELSE "raise"

\* Variants of the loop condition: `<=` for `<`, and no deadline at all.
WhileConditionOffByOne(e) == e <= max_wait_time

WhileConditionNoDeadline(e) == TRUE

\* The loop condition of wait_for_sync_completion.
WhileCondition(e) == e < max_wait_time

\* Variants of the try block: an unrecognised status falls through to
\* return True; the 'succeeded' comparison never matches.
TryBlockUnknownReturns(resp) ==
    CASE resp = "exception" -> "raise"
      [] resp = "non200"    -> "sleep"
      [] resp = "succeeded" -> "return"
      [] resp = "failed"    -> "raise"
      [] resp \in {"pending", "running"} -> "sleep"
      [] OTHER              -> "return"

TryBlockStatusMismatch(resp) ==
    CASE resp = "exception" -> "raise"
      [] resp = "non200"    -> "sleep"
      [] resp = "failed"    -> "raise"
      [] resp \in {"pending", "running"} -> "sleep"
      [] OTHER              -> "sleep"

\* The try block of one iteration: "return" (return True), "raise" (an
\* exception leaves the block) or "sleep" (the branch slept and added
\* check_interval to elapsed_time).
TryBlock(resp) ==
    CASE resp = "exception" -> "raise"     \* requests.get / response.json raised
      [] resp = "non200"    -> "sleep"     \* lines 132-135
      [] resp = "succeeded" -> "return"    \* lines 118-120
      [] resp = "failed"    -> "raise"     \* lines 121-123
      [] resp \in {"pending", "running"} -> "sleep"   \* lines 124-127
      [] OTHER              -> "sleep"     \* lines 128-131

\* Variant: the handler re-raises, as the one of trigger_airbyte_sync does.
IterationReraises(resp) == TryBlock(resp)

\* One iteration of the loop: the try block, then `except Exception` around
\* it, which catches whatever the block raised, sleeps and adds
\* check_interval.
Iteration(resp) ==
    IF TryBlock(resp) = "raise" THEN "sleep" ELSE TryBlock(resp)

\* Variant: the handler sleeps without adding to elapsed_time.
ElapsedAfterSleepHandlerForgets(resp, e) ==
    IF TryBlock(resp) = "raise" THEN e ELSE e + check_interval

\* elapsed_time after an iteration that slept: every sleeping branch and
\* the handler add check_interval.
ElapsedAfterSleep(resp, e) == e + check_interval

\* Variant: elapsed_time kept across invocations (a module-level counter).
EntryElapsedResumed(e) == e

\* Line 105: every invocation of wait_for_sync_completion starts with
\* elapsed_time = 0, whatever an earlier invocation left.
EntryElapsed(e) == 0

\* The ghost record of what the status checks of this run produced.
Observe(resp) ==
    /\ firstObs' = IF checks = 1 THEN resp ELSE firstObs
    /\ lastObs' = resp
    /\ sawSucceeded' = (sawSucceeded \/ resp = "succeeded")
    /\ sawFailed' = (sawFailed \/ resp = "failed")
    /\ onlyRunning' = (onlyRunning /\ resp = "running")

PollInit ==
    /\ pc = "idle"
    /\ job_id = 0
    /\ elapsed_time = 0
    /\ outcome = NoOutcome
    /\ submissions = 0
    /\ checks = 0
    /\ sleeps = 0
    /\ slept = 0
    /\ run = 1
    /\ firstObs = "none"
    /\ lastObs = "none"
    /\ sawSucceeded = FALSE
    /\ sawFailed = FALSE
    /\ onlyRunning = TRUE
    /\ immRuns = 0
    /\ immSubmits = 0
    /\ immChecks = 0

\* trigger_airbyte_sync(connection_id) up to its POST: requests.post is
\* called and the function is blocked in it (timeout=30).
SubmitRequest ==
    /\ pc = "idle"
    /\ pc' = "submitting"
    /\ submissions' = submissions + 1
    /\ UNCHANGED <<job_id, elapsed_time, outcome, checks, sleeps, slept, run,
                   firstObs, lastObs, sawSucceeded, sawFailed, onlyRunning,
                   immRuns, immSubmits, immChecks>>
    /\ UNCHANGED schedVars

\* requests.post is interrupted (KeyboardInterrupt): `except Exception`
\* (line 96) does not catch it and it leaves trigger_airbyte_sync.
SubmitInterrupted ==
    /\ pc = "submitting"
    /\ pc' = "done"
    /\ outcome' = [kind |-> "KeyboardInterrupt", job |-> 0]
    /\ UNCHANGED <<job_id, elapsed_time, submissions, checks, sleeps, slept,
                   run, firstObs, lastObs, sawSucceeded, sawFailed,
                   onlyRunning, immRuns, immSubmits, immChecks>>
    /\ UNCHANGED schedVars

\* The POST of trigger_airbyte_sync is answered (or raises an Exception):
\* the rest of the function, followed on success by the call of
\* wait_for_sync_completion(job_id), whose first statement sets
\* elapsed_time = 0.
trigger_airbyte_sync(resp, id) ==
    /\ pc = "submitting"
    /\ IF TriggerResult(resp) = "return"
       THEN /\ job_id' = id
            /\ elapsed_time' = EntryElapsed(elapsed_time)
            /\ pc' = "polling"
            /\ outcome' = outcome
       ELSE /\ job_id' = job_id
            /\ elapsed_time' = elapsed_time
            /\ pc' = "done"
            /\ outcome' = [kind |-> "SubmissionError", job |-> 0]
    /\ UNCHANGED <<submissions, checks, sleeps, slept, run, firstObs, lastObs,
                   sawSucceeded, sawFailed, onlyRunning, immRuns, immSubmits,
                   immChecks>>
    /\ UNCHANGED schedVars

\* The test of `while elapsed_time < max_wait_time` holds and the
\* iteration calls requests.get: the function is blocked in it (timeout=10).
StatusRequest ==
    /\ pc = "polling"
    /\ WhileCondition(elapsed_time)
    /\ pc' = "requesting"
    /\ checks' = checks + 1
    /\ UNCHANGED <<job_id, elapsed_time, outcome, submissions, sleeps, slept,
                   run, firstObs, lastObs, sawSucceeded, sawFailed,
                   onlyRunning, immRuns, immSubmits, immChecks>>
    /\ UNCHANGED schedVars

\* requests.get is interrupted (KeyboardInterrupt): `except Exception`
\* (line 137) does not catch it and it leaves wait_for_sync_completion.
StatusInterrupted ==
    /\ pc = "requesting"
    /\ pc' = "done"
    /\ outcome' = [kind |-> "KeyboardInterrupt", job |-> job_id]
    /\ UNCHANGED <<job_id, elapsed_time, submissions, checks, sleeps, slept,
                   run, firstObs, lastObs, sawSucceeded, sawFailed,
                   onlyRunning, immRuns, immSubmits, immChecks>>
    /\ UNCHANGED schedVars

\* The GET is answered (or raises an Exception): the dispatch on the
\* answer, up to the point where the iteration returns or calls
\* time.sleep(check_interval).  On a sleeping branch the function is then
\* suspended in time.sleep, elapsed_time not yet added to.
StatusCheck(resp) ==
    /\ pc = "requesting"
    /\ Observe(resp)
    /\ CASE Iteration(resp) = "return" ->
              /\ pc' = "done"
              /\ outcome' = [kind |-> "success", job |-> job_id]
              /\ UNCHANGED <<elapsed_time, sleeps>>
         [] Iteration(resp) = "sleep" ->
              /\ pc' = "sleeping"
              /\ sleeps' = sleeps + 1
              /\ UNCHANGED <<elapsed_time, outcome>>
         [] OTHER ->   \* an exception leaves wait_for_sync_completion
              /\ pc' = "done"
              /\ outcome' = [kind |-> IF resp = "failed" THEN "JobFailed"
                                                        ELSE "QueryError",
                             job |-> job_id]
              /\ UNCHANGED <<elapsed_time, sleeps>>
    /\ UNCHANGED <<job_id, submissions, checks, slept, run, immRuns,
                   immSubmits, immChecks>>
    /\ UNCHANGED schedVars

\* time.sleep(check_interval) returns: the statement after it adds
\* check_interval to elapsed_time and the loop goes back to its test.
\* lastObs is the answer whose branch is sleeping.
SleepReturns ==
    /\ pc = "sleeping"
    /\ slept' = slept + 1
    /\ elapsed_time' = ElapsedAfterSleep(lastObs, elapsed_time)
    /\ pc' = "polling"
    /\ UNCHANGED <<job_id, outcome, submissions, checks, sleeps, run,
                   firstObs, lastObs, sawSucceeded, sawFailed, onlyRunning,
                   immRuns, immSubmits, immChecks>>
    /\ UNCHANGED schedVars

\* time.sleep(check_interval) is interrupted (KeyboardInterrupt): it is no
\* Exception, so `except Exception` does not catch it and it leaves
\* wait_for_sync_completion, the addition to elapsed_time not executed.
SleepInterrupted ==
    /\ pc = "sleeping"
    /\ pc' = "done"
    /\ outcome' = [kind |-> "KeyboardInterrupt", job |-> job_id]
    /\ UNCHANGED <<job_id, elapsed_time, submissions, checks, sleeps, slept,
                   run, firstObs, lastObs, sawSucceeded, sawFailed,
                   onlyRunning, immRuns, immSubmits, immChecks>>
    /\ UNCHANGED schedVars

\* The loop condition is false: line 142 raises the time-out exception.
TimedOut ==
    /\ pc = "polling"
    /\ ~WhileCondition(elapsed_time)
    /\ pc' = "done"
    /\ outcome' = [kind |-> "JobTimeout", job |-> job_id]
    /\ UNCHANGED <<job_id, elapsed_time, submissions, checks, sleeps, slept,
                   run, firstObs, lastObs, sawSucceeded, sawFailed,
                   onlyRunning, immRuns, immSubmits, immChecks>>
    /\ UNCHANGED schedVars

\* The body is run again from scratch: every local starts afresh.  The
\* counts of a run whose first check produced "succeeded" are added to the
\* imm* totals.
Rerun ==
    /\ pc = "done"
    /\ run < MaxRuns
    /\ run' = run + 1
    /\ immRuns' = IF firstObs = "succeeded" THEN immRuns + 1 ELSE immRuns
    /\ immSubmits' = IF firstObs = "succeeded" THEN immSubmits + submissions
                                               ELSE immSubmits
    /\ immChecks' = IF firstObs = "succeeded" THEN immChecks + checks
                                              ELSE immChecks
    /\ pc' = "idle"
    /\ job_id' = 0
    /\ elapsed_time' = 0
    /\ outcome' = NoOutcome
    /\ submissions' = 0
    /\ checks' = 0
    /\ sleeps' = 0
    /\ slept' = 0
    /\ firstObs' = "none"
    /\ lastObs' = "none"
    /\ sawSucceeded' = FALSE
    /\ sawFailed' = FALSE
    /\ onlyRunning' = TRUE
    /\ UNCHANGED schedVars

\* The executor's retry policy applied to this body: the attempt failed and
\* attempts remain, so the body is invoked again.  Nothing of the failed
\* attempt is handed to the new one; elapsed_time is shown as the failed
\* attempt left it until line 105 of the new invocation assigns it.
RetryBody ==
    /\ pc = "done"
    /\ outcome.kind # "success"
    /\ run <= retries
    /\ run' = run + 1
    /\ pc' = "idle"
    /\ job_id' = 0
    /\ outcome' = NoOutcome
    /\ submissions' = 0
    /\ checks' = 0
    /\ sleeps' = 0
    /\ slept' = 0
    /\ firstObs' = "none"
    /\ lastObs' = "none"
    /\ sawSucceeded' = FALSE
    /\ sawFailed' = FALSE
    /\ onlyRunning' = TRUE
    /\ UNCHANGED <<elapsed_time, immRuns, immSubmits, immChecks>>
    /\ UNCHANGED schedVars

\* The executor reports the task: Succeeded, or Failed with no attempt left.
ExecutorReports ==
    /\ pc = "done"
    /\ outcome.kind = "success" \/ run > retries
    /\ pc' = "reported"
    /\ UNCHANGED <<job_id, elapsed_time, outcome, submissions, checks, sleeps,
                   slept, run, firstObs, lastObs, sawSucceeded, sawFailed, onlyRunning,
                   immRuns, immSubmits, immChecks>>
    /\ UNCHANGED schedVars

PollNext ==
    \/ SubmitRequest
    \/ SubmitInterrupted
    \/ \E resp \in SubmitResponses, id \in JobIds : trigger_airbyte_sync(resp, id)
    \/ StatusRequest
    \/ StatusInterrupted
    \/ \E resp \in StatusResponses : StatusCheck(resp)
    \/ SleepReturns
    \/ SleepInterrupted
    \/ TimedOut
    \/ Rerun

(***************************************************************************)
(* Part II: the declared task graphs and their execution                   *)
(***************************************************************************)

\* The largest worker budget a run is configured with.
WorkerBudget == 2

Dags == {"healthcare_pricing_pipeline", "airbyte_integration_example",
         "glimmr_data_processing"}

\* a >> b >> c : the edges of a chain.
Chain(seq) == {<<seq[i], seq[i + 1]>> : i \in 1..(Len(seq) - 1)}

\* Variant: generate_analytics is not wired to end_pipeline.
HealthcareEdgesFanInLost ==
    Chain(<<"start_pipeline", "discover_files", "extract_data", "transform_data">>)
    \cup Chain(<<"transform_data", "quality_checks", "load_data">>)
    \cup {<<"load_data", "update_indices">>, <<"load_data", "generate_analytics">>,
          <<"update_indices", "end_pipeline">>}

\* Variant: line 148 written as one chain,
\* load_data >> update_indices >> generate_analytics >> end_pipeline.
HealthcareEdgesSerial ==
    Chain(<<"start_pipeline", "discover_files", "extract_data", "transform_data">>)
    \cup Chain(<<"transform_data", "quality_checks", "load_data">>)
    \cup Chain(<<"load_data", "update_indices", "generate_analytics", "end_pipeline">>)

\* Variant: generate_analytics is not wired to load_data.
HealthcareEdgesFanOutLost ==
    Chain(<<"start_pipeline", "discover_files", "extract_data", "transform_data">>)
    \cup Chain(<<"transform_data", "quality_checks", "load_data">>)
    \cup {<<"load_data", "update_indices">>,
          <<"update_indices", "end_pipeline">>, <<"generate_analytics", "end_pipeline">>}

\* healthcare_pricing_pipeline.py, lines 146-148.
HealthcareEdges ==
    Chain(<<"start_pipeline", "discover_files", "extract_data", "transform_data">>)
    \cup Chain(<<"transform_data", "quality_checks", "load_data">>)
    \cup {<<"load_data", "update_indices">>, <<"load_data", "generate_analytics">>,
          <<"update_indices", "end_pipeline">>, <<"generate_analytics", "end_pipeline">>}

\* Variant: the second chain lists example_sync after data_quality_check,
\* which closes a cycle with the first chain.
AirbyteEdgesCyclic ==
    Chain(<<"health_check", "get_connections", "example_sync",
            "data_quality_check", "send_notification">>)
    \cup Chain(<<"health_check", "get_connections", "dbt_deps",
                 "dbt_run_staging", "dbt_test_staging", "dbt_run_marts",
                 "dbt_test_marts", "data_quality_check", "example_sync",
                 "send_notification">>)

\* Variant: only the statement of line 190 wires the tasks.
AirbyteEdgesFirstChainOnly ==
    Chain(<<"health_check", "get_connections", "example_sync",
            "data_quality_check", "send_notification">>)

\* airbyte_integration_example.py, line 190 and line 268: both statements
\* add their edges to the same DAG.
AirbyteEdges ==
    Chain(<<"health_check", "get_connections", "example_sync",
            "data_quality_check", "send_notification">>)
    \cup Chain(<<"health_check", "get_connections", "example_sync", "dbt_deps",
                 "dbt_run_staging", "dbt_test_staging", "dbt_run_marts",
                 "dbt_test_marts", "data_quality_check", "send_notification">>)

\* glimmr_dag.py, line 45.
GlimmrEdges == Chain(<<"hello_task", "health_check">>)

Edges(d) ==
    CASE d = "healthcare_pricing_pipeline" -> HealthcareEdges
      [] d = "airbyte_integration_example" -> AirbyteEdges
      [] OTHER -> GlimmrEdges

\* The operators created with dag=dag in each file.
Tasks(d) ==
    CASE d = "healthcare_pricing_pipeline" ->
           {"start_pipeline", "discover_files", "extract_data", "transform_data",
            "quality_checks", "load_data", "update_indices", "generate_analytics",
            "end_pipeline"}
      [] d = "airbyte_integration_example" ->
           {"health_check", "get_connections", "example_sync", "data_quality_check",
            "send_notification", "dbt_deps", "dbt_run_staging", "dbt_test_staging",
            "dbt_run_marts", "dbt_test_marts"}
      [] OTHER -> {"hello_task", "health_check"}

AllTasks == UNION {Tasks(d) : d \in Dags}

\* Variant: the edges read in the wrong direction.
upstream_task_ids_Reversed(d, t) == {e[2] : e \in {x \in Edges(d) : x[1] = t}}

\* What a >> b records on b: its upstream tasks.
upstream_task_ids(d, t) == {e[1] : e \in {x \in Edges(d) : x[2] = t}}

\* What a >> b records on a: its downstream tasks.
downstream_task_ids(d, t) == {e[2] : e \in {x \in Edges(d) : x[1] = t}}

\* The tasks reachable from the set S along the edges, S excluded unless
\* reached again.
RECURSIVE Reach(_, _, _)
Reach(d, S, acc) ==
    LET nxt == UNION {downstream_task_ids(d, t) : t \in S} \ acc
    IN  IF nxt = {} THEN acc ELSE Reach(d, nxt, acc \cup nxt)

Descendants(d, t) == Reach(d, {t}, {})

\* What the request of check_airbyte_health and of get_airbyte_connections
\* can produce; a 200 response to the latter may carry a body that is not
\* JSON or whose entries lack 'connectionId'.
HealthResponses == {"ok200", "non200", "exception"}

ConnectionsResponses == {"ok200", "ok200_malformed", "non200", "exception"}

\* Variant: the handler prints and re-raises, as trigger_airbyte_sync does.
check_airbyte_health_Reraises(resp) ==
    CASE resp = "ok200"  -> [kind |-> "return", value |-> "True"]
      [] resp = "non200" -> [kind |-> "return", value |-> "False"]
      [] OTHER           -> [kind |-> "raise", value |-> "None"]

\* check_airbyte_health: True on 200, False on any other status code, and
\* False from the handler when the request raised.
check_airbyte_health(resp) ==
    CASE resp = "ok200"  -> [kind |-> "return", value |-> "True"]
      [] resp = "non200" -> [kind |-> "return", value |-> "False"]
      [] OTHER           -> [kind |-> "return", value |-> "False"]

\* get_airbyte_connections: the connection ids on 200, [] on any other
\* status code, and [] from the handler when the request, response.json()
\* or conn['connectionId'] raised.
get_airbyte_connections(resp) ==
    CASE resp = "ok200"  -> [kind |-> "return", value |-> "connection_ids"]
      [] resp = "non200" -> [kind |-> "return", value |-> "[]"]
      [] OTHER           -> [kind |-> "return", value |-> "[]"]

\* Everything the body of task t can do: the two guarded callables as
\* above; any other body (a shell command, run_dbt_command, an unguarded
\* callable) returns or reports a failure to the executor.
BodyResults(d, t) ==
    IF d = "airbyte_integration_example" /\ t = "health_check"
    THEN {check_airbyte_health(r) : r \in HealthResponses}
    ELSE IF d = "airbyte_integration_example" /\ t = "get_connections"
    THEN {get_airbyte_connections(r) : r \in ConnectionsResponses}
    ELSE {[kind |-> "return", value |-> "done"], [kind |-> "raise", value |-> "None"]}

ReturnValues(d, t) == {b.value : b \in {x \in BodyResults(d, t) : x.kind = "return"}}

MayRaise(d, t) == \E b \in BodyResults(d, t) : b.kind = "raise"

Terminal == {"Succeeded", "Failed", "Skipped"}

NumRunning == Cardinality({t \in Tasks(dag) : status[t] = "Running"})

\* Readiness: Pending with every predecessor Succeeded.
Ready(t) ==
    /\ status[t] = "Pending"
    /\ \A p \in upstream_task_ids(dag, t) : status[p] = "Succeeded"

SchedInit ==
    /\ dag \in Dags
    /\ added = <<>>
    /\ worker_budget \in 1..WorkerBudget
    /\ runState = "NotStarted"
    /\ status = [t \in Tasks(dag) |-> "Pending"]
    /\ attempts = [t \in Tasks(dag) |-> 0]
    /\ result = [t \in Tasks(dag) |-> "not_run"]
    /\ order = <<>>

\* The tasks reachable from the set S along the edges E.
RECURSIVE ReachIn(_, _, _)
ReachIn(E, S, acc) ==
    LET nxt == {e[2] : e \in {x \in E : x[1] \in S}} \ acc
    IN  IF nxt = {} THEN acc ELSE ReachIn(E, nxt, acc \cup nxt)

\* Variant: an edge from a task to itself is not looked at.
HasCycleNoSelfEdge(E) ==
    \E e \in E : e[1] \in ReachIn({x \in E : x[1] # x[2]}, {e[1]}, {})

\* Construction-time validation: some task is reachable from itself.
HasCycle(E) == \E e \in E : e[1] \in ReachIn(E, {e[1]}, {})

\* The edges which, added to the declared ones of d, close a cycle: a
\* self-edge, or an edge from a task back to one it is downstream of.
CycleClosingEdges(d) ==
    {e \in Tasks(d) \X Tasks(d) : e[1] = e[2] \/ e[1] \in Descendants(d, e[2])}

\* The edge set handed to graph construction.
EdgeSet == Edges(dag) \cup (IF added = <<>> THEN {} ELSE {added})

\* A graph is about to be built from the declared edges, or from them plus
\* one edge that closes a cycle.
BuildInit ==
    /\ dag \in Dags
    /\ added \in {<<>>} \cup CycleClosingEdges(dag)
    /\ worker_budget \in 1..WorkerBudget
    /\ runState = "Unbuilt"
    /\ status = [t \in Tasks(dag) |-> "Pending"]
    /\ attempts = [t \in Tasks(dag) |-> 0]
    /\ result = [t \in Tasks(dag) |-> "not_run"]
    /\ order = <<>>

\* Graph construction: CycleError if the edge set contains a cycle, else the
\* graph is built and a run may start.
Construct ==
    /\ runState = "Unbuilt"
    /\ runState' = IF HasCycle(EdgeSet) THEN "CycleError" ELSE "NotStarted"
    /\ UNCHANGED <<dag, added, worker_budget, status, attempts, result, order>>
    /\ UNCHANGED pollVars

\* Not Started -> Running.
StartRun ==
    /\ runState = "NotStarted"
    /\ runState' = "Running"
    /\ UNCHANGED <<dag, added, worker_budget, status, attempts, result, order>>
    /\ UNCHANGED pollVars

\* Variant: the worker budget is not consulted.
StartTaskNoBudget(t) ==
    /\ runState = "Running"
    /\ Ready(t)
    /\ status' = [status EXCEPT ![t] = "Running"]
    /\ attempts' = [attempts EXCEPT ![t] = 1]
    /\ UNCHANGED <<dag, added, worker_budget, runState, result, order>>
    /\ UNCHANGED pollVars

\* The scheduler picks a ready task and hands it to the executor, if a
\* worker slot is free.
StartTask(t) ==
    /\ runState = "Running"
    /\ Ready(t)
    /\ NumRunning < worker_budget
    /\ status' = [status EXCEPT ![t] = "Running"]
    /\ attempts' = [attempts EXCEPT ![t] = 1]
    /\ UNCHANGED <<dag, added, worker_budget, runState, result, order>>
    /\ UNCHANGED pollVars

\* The body of a running task ends without error.
TaskSucceeds(t) ==
    /\ runState = "Running"
    /\ status[t] = "Running"
    /\ \E v \in ReturnValues(dag, t) : result' = [result EXCEPT ![t] = v]
    /\ status' = [status EXCEPT ![t] = "Succeeded"]
    /\ order' = Append(order, t)
    /\ UNCHANGED <<dag, added, worker_budget, runState, attempts>>
    /\ UNCHANGED pollVars

\* Variant: a failed attempt puts the task back to Pending to be picked
\* again.
TaskRetriesRequeue(t) ==
    /\ runState = "Running"
    /\ status[t] = "Running"
    /\ MayRaise(dag, t)
    /\ attempts[t] <= retries
    /\ status' = [status EXCEPT ![t] = "Pending"]
    /\ UNCHANGED <<dag, added, worker_budget, runState, attempts, result, order>>
    /\ UNCHANGED pollVars

\* The body of a running task fails and attempts remain: the executor runs
\* the body again.
TaskRetries(t) ==
    /\ runState = "Running"
    /\ status[t] = "Running"
    /\ MayRaise(dag, t)
    /\ attempts[t] <= retries
    /\ attempts' = [attempts EXCEPT ![t] = attempts[t] + 1]
    /\ UNCHANGED <<dag, added, worker_budget, runState, status, result, order>>
    /\ UNCHANGED pollVars

\* The body of a running task fails on its last attempt: the task is
\* terminally Failed and everything downstream of it is marked Skipped.
TaskFails(t) ==
    /\ runState = "Running"
    /\ status[t] = "Running"
    /\ MayRaise(dag, t)
    /\ attempts[t] > retries
    /\ status' = [u \in Tasks(dag) |->
                    IF u = t THEN "Failed"
                    ELSE IF u \in Descendants(dag, t) /\ status[u] = "Pending"
                         THEN "Skipped"
                         ELSE status[u]]
    /\ order' = Append(order, t)
    /\ UNCHANGED <<dag, added, worker_budget, runState, attempts, result>>
    /\ UNCHANGED pollVars

\* No task can make progress any more: the run ends.
FinishRun ==
    /\ runState = "Running"
    /\ \A t \in Tasks(dag) : status[t] \in Terminal
    /\ runState' = IF \E t \in Tasks(dag) : status[t] = "Failed"
                   THEN "Failed" ELSE "Completed"
    /\ UNCHANGED <<dag, added, worker_budget, status, attempts, result, order>>
    /\ UNCHANGED pollVars

SchedNext ==
    \/ StartRun
    \/ \E t \in Tasks(dag) : StartTask(t)
    \/ \E t \in Tasks(dag) : TaskSucceeds(t)
    \/ \E t \in Tasks(dag) : TaskRetries(t)
    \/ \E t \in Tasks(dag) : TaskFails(t)
    \/ FinishRun

(***************************************************************************)
(* Specifications                                                          *)
(***************************************************************************)

\* The submit-and-poll body alone; no DAG run is started.
Init ==
    /\ dag = "glimmr_data_processing"
    /\ worker_budget = 1
    /\ SchedInit
    /\ PollInit

Next == PollNext

Spec == Init /\ [][Next]_vars

\* The poll does not stop by itself between two statements.
FairSpec == Spec /\ WF_vars(Next)

\* The submit-and-poll body as the body of one task, run by the executor
\* under the retry policy of default_args.
RetryNext ==
    \/ SubmitRequest
    \/ SubmitInterrupted
    \/ \E resp \in SubmitResponses, id \in JobIds : trigger_airbyte_sync(resp, id)
    \/ StatusRequest
    \/ StatusInterrupted
    \/ \E resp \in StatusResponses : StatusCheck(resp)
    \/ SleepReturns
    \/ SleepInterrupted
    \/ TimedOut
    \/ RetryBody
    \/ ExecutorReports

RetrySpec == Init /\ [][RetryNext]_vars

\* A DAG run; the poll functions are not called by any declared task.
SchedSpecInit == PollInit /\ SchedInit

SchedSpecNext == SchedNext

SchedSpec == SchedSpecInit /\ [][SchedSpecNext]_vars

\* Graph construction, then the run if the graph was accepted.
BuildSpecInit == PollInit /\ BuildInit

BuildSpecNext == Construct \/ SchedNext

BuildSpec == BuildSpecInit /\ [][BuildSpecNext]_vars

\* The scheduling loop keeps going while some step is possible.
SchedFairSpec == SchedSpec /\ WF_vars(SchedSpecNext)

(***************************************************************************)
(* Claims about the submit-and-poll body (checked under Spec / FairSpec)   *)
(***************************************************************************)

\* C1: a status check that observes 'failed' ends the poll at once with
\* JobFailed for that job id: that check is followed by no sleep and no
\* further check, and the outcome is neither success nor JobTimeout.
\* (Stated as the claim has it; the code does not behave so.)
C1_FailedEndsPoll ==
    sawFailed =>
        /\ pc = "done"
        /\ outcome = [kind |-> "JobFailed", job |-> job_id]
        /\ lastObs = "failed"
        /\ sleeps = checks - 1

\* No status check of this run has produced a terminal status.
NoTerminalSeen == ~sawSucceeded /\ ~sawFailed

\* wait_for_sync_completion was entered and left of its own accord: the
\* submission did not fail and no blocking call (the POST, a GET, a sleep)
\* was interrupted from outside.
PollEndedItself ==
    pc = "done" /\ outcome.kind \notin {"SubmissionError", "KeyboardInterrupt"}

\* wait_for_sync_completion is running: at the loop test, blocked in the
\* GET or suspended in time.sleep.
InPoll == pc \in {"polling", "requesting", "sleeping"}

\* C2: when no check ever reports a terminal status the poll ends with
\* JobTimeout once elapsed_time has reached max_wait_time; no status check
\* is issued once the deadline is reached, whatever the checks produced;
\* and a poll that has started always ends, asleep or not.
C2_TimeoutWithoutTerminal ==
    /\ []((PollEndedItself /\ NoTerminalSeen)
            => (outcome.kind = "JobTimeout" /\ elapsed_time >= max_wait_time))
    /\ [][(pc = "polling" /\ elapsed_time >= max_wait_time)
            => (checks' = checks /\ sleeps' = sleeps /\ pc' = "done"
                /\ outcome'.kind = "JobTimeout")]_vars
    /\ (InPoll ~> (pc = "done"))

C2_Witness ==
    /\ pc = "done"
    /\ outcome.kind = "JobTimeout"
    /\ NoTerminalSeen
    /\ firstObs = "pending"
    /\ lastObs = "exception"

\* C3: the poll returns success exactly when one of its status checks,
\* each issued while elapsed_time < max_wait_time, produced 'succeeded':
\* success is never returned without that observation, and the observation
\* always ends the poll with success.
C3_SuccessIffObserved ==
    /\ (pc = "done" /\ outcome.kind = "success")
          => (sawSucceeded /\ lastObs = "succeeded" /\ elapsed_time < max_wait_time)
    /\ sawSucceeded => (pc = "done" /\ outcome.kind = "success")

\* Success observed by the last check the deadline permits.
C3_Witness ==
    /\ outcome.kind = "success"
    /\ checks = max_wait_time \div check_interval
    /\ elapsed_time = max_wait_time - check_interval

\* C4: with interval 30 and maxWait 3600, a poll whose every status check
\* produces 'running' ends with JobTimeout, with elapsed_time = 3600 and
\* after exactly 120 status checks; before that it has not ended.  Each
\* answered check is followed by one sleep, and elapsed_time is 30 times
\* the sleeps that have returned.
C4_RunningForever ==
    (pc # "idle" /\ outcome.kind # "SubmissionError" /\ onlyRunning) =>
        /\ pc = "polling" => (sleeps = checks /\ slept = checks)
        /\ pc = "sleeping" => (sleeps = checks /\ slept = checks - 1)
        /\ elapsed_time = 30 * slept
        /\ checks <= 120
        /\ PollEndedItself => (outcome.kind = "JobTimeout"
                               /\ elapsed_time = 3600 /\ checks = 120)
        /\ (pc = "polling" /\ checks < 120) => WhileCondition(elapsed_time)

C4_Witness ==
    /\ onlyRunning
    /\ outcome.kind = "JobTimeout"
    /\ checks = 120
    /\ elapsed_time = 3600

\* C5: a status check whose GET raises an Exception or gets a non-200
\* response does not end the poll: the loop calls time.sleep once and, when
\* the sleep returns, adds check_interval to elapsed_time and checks again
\* under the same deadline; a poll that is not interrupted from outside
\* ends only with an observed terminal status or with the deadline reached.
C5_QueryErrorTolerated ==
    /\ [][(pc = "requesting" /\ pc' # "requesting"
           /\ outcome'.kind # "KeyboardInterrupt"
           /\ lastObs' \in {"exception", "non200"})
            => /\ pc' = "sleeping"
               /\ outcome' = outcome
               /\ checks' = checks
               /\ sleeps' = sleeps + 1 /\ slept' = slept
               /\ elapsed_time' = elapsed_time]_vars
    /\ [][(pc = "sleeping" /\ lastObs \in {"exception", "non200"})
            => \/ /\ pc' = "polling"
                  /\ outcome' = outcome
                  /\ checks' = checks /\ sleeps' = sleeps
                  /\ slept' = slept + 1
                  /\ elapsed_time' = elapsed_time + check_interval
               \/ outcome'.kind = "KeyboardInterrupt"]_vars
    /\ []((pc = "polling" /\ lastObs \in {"exception", "non200"})
            => IF elapsed_time < max_wait_time
               THEN ENABLED StatusRequest /\ ~ENABLED TimedOut
               ELSE ENABLED TimedOut /\ ~ENABLED StatusRequest)
    /\ [](pc = "requesting" => ENABLED (\E r \in StatusResponses : StatusCheck(r)))
    /\ [](PollEndedItself
            => \/ lastObs \in {"succeeded", "failed"}
               \/ (outcome.kind = "JobTimeout" /\ elapsed_time >= max_wait_time))

C5_Witness ==
    /\ pc = "done"
    /\ outcome.kind = "success"
    /\ firstObs = "exception"
    /\ checks = 3
    /\ elapsed_time = 2 * check_interval

\* C6: a run whose first status check produces 'succeeded' issues exactly
\* one submission and one status check, and so does every repetition of it.
C6_ImmediateSuccessCounts ==
    /\ firstObs = "succeeded"
          => /\ pc = "done"
             /\ outcome.kind = "success"
             /\ submissions = 1
             /\ checks = 1
             /\ sleeps = 0
    /\ immSubmits = immRuns
    /\ immChecks = immRuns

\* The run is repeated after an immediate success and succeeds at once again.
C6_Witness ==
    /\ immRuns >= 1
    /\ run >= 2
    /\ firstObs = "succeeded"
    /\ submissions = 1
    /\ checks = 1

\* C19: throughout wait_for_sync_completion elapsed_time is a multiple of
\* check_interval between 0 and max_wait_time, equal to check_interval
\* times the sleeps done so far (the time.sleep calls that have returned: a
\* sleep the function is suspended in, or was interrupted in, is not done);
\* an iteration that does not end the poll makes one check and one sleep
\* and, the sleep over, adds exactly one check_interval; at most
\* max_wait_time / check_interval = 120 status checks are issued.
C19_ElapsedAccounting ==
    /\ []((InPoll \/ pc = "done") =>
            /\ elapsed_time % check_interval = 0
            /\ 0 <= elapsed_time /\ elapsed_time <= max_wait_time
            /\ elapsed_time = check_interval * slept
            /\ slept <= sleeps /\ sleeps <= slept + 1
            /\ sleeps <= checks /\ checks <= sleeps + 1
            /\ checks <= max_wait_time \div check_interval
            /\ checks <= 120)
    /\ [](pc = "polling" => (slept = sleeps /\ sleeps = checks))
    /\ [](pc = "requesting" => (slept = sleeps /\ checks = sleeps + 1
                                /\ elapsed_time < max_wait_time))
    /\ [](pc = "sleeping" => (sleeps = slept + 1 /\ checks = sleeps
                              /\ elapsed_time < max_wait_time))
    /\ [][(pc = "polling" /\ pc' = "requesting")
            => /\ checks' = checks + 1
               /\ sleeps' = sleeps /\ slept' = slept
               /\ elapsed_time' = elapsed_time]_vars
    /\ [][(pc = "requesting" /\ pc' = "sleeping")
            => /\ checks' = checks
               /\ sleeps' = sleeps + 1 /\ slept' = slept
               /\ elapsed_time' = elapsed_time]_vars
    /\ [][(pc = "sleeping" /\ pc' = "polling")
            => /\ checks' = checks
               /\ sleeps' = sleeps /\ slept' = slept + 1
               /\ elapsed_time' = elapsed_time + check_interval]_vars
    /\ [][(InPoll /\ pc' = "done")
            => (elapsed_time' = elapsed_time /\ slept' = slept
                /\ sleeps' = sleeps /\ checks' = checks)]_vars
    /\ [][(pc = "requesting" /\ pc' # "requesting")
            => pc' \in {"sleeping", "done"}]_vars

\* A poll that slept after a raised request, a 'failed' status and a non-200
\* response alike and ran into the deadline.
C19_Witness ==
    /\ pc = "done"
    /\ outcome.kind = "JobTimeout"
    /\ sawFailed
    /\ firstObs = "exception"
    /\ lastObs = "non200"
    /\ checks = 120
    /\ elapsed_time = max_wait_time

\* C11 (the polling body under the retry policy): the body is invoked again
\* only after a failed attempt and only while attempts remain, so at most
\* twice with retries = 1 and never after a success; the task is reported
\* Failed only when the last attempt failed; every attempt starts from
\* scratch, its elapsed_time counting its own sleeps from 0.
C11_RetryFromScratch ==
    /\ [](run <= 2)
    /\ []((pc = "reported" /\ outcome.kind # "success") => run = 2)
    /\ [](InPoll => elapsed_time = check_interval * slept)
    /\ [][run' # run
            => /\ outcome.kind \notin {"none", "success"}
               /\ run = 1 /\ run' = 2
               /\ pc' = "idle" /\ outcome' = NoOutcome
               /\ submissions' = 0 /\ checks' = 0 /\ sleeps' = 0
               /\ slept' = 0
               /\ job_id' = 0]_vars
    /\ [][outcome.kind = "success"
            => (run' = run /\ submissions' = submissions /\ checks' = checks)]_vars

\* The first attempt polled and failed; the second attempt polled its own
\* full hour and the task is reported Failed.
C11_Witness ==
    /\ pc = "reported"
    /\ run = 2
    /\ outcome.kind = "JobTimeout"
    /\ checks = 120
    /\ sleeps = 120
    /\ elapsed_time = max_wait_time

(***************************************************************************)
(* Claims about DAG runs (checked under SchedSpec / SchedFairSpec)         *)
(***************************************************************************)

\* The predecessors the DAG file declares for t: a >> t.
DeclaredPreds(d, t) == {p \in Tasks(d) : <<p, t>> \in Edges(d)}

\* The position of task t in the order of completion (0: not finished).
Pos(t) ==
    IF \E i \in 1..Len(order) : order[i] = t
    THEN CHOOSE i \in 1..Len(order) : order[i] = t
    ELSE 0

\* C7: in healthcare_pricing_pipeline, when update_indices and
\* generate_analytics have ended one Succeeded and one Failed, end_pipeline
\* is Skipped and its body has never been invoked, in whichever order the
\* two finished.
C7_FanInSkipped ==
    (/\ dag = "healthcare_pricing_pipeline"
     /\ {status["update_indices"], status["generate_analytics"]}
          = {"Succeeded", "Failed"})
      => /\ status["end_pipeline"] = "Skipped"
         /\ attempts["end_pipeline"] = 0

\* generate_analytics fails first, update_indices succeeds after it.
C7_Witness ==
    /\ dag = "healthcare_pricing_pipeline"
    /\ status["generate_analytics"] = "Failed"
    /\ status["update_indices"] = "Succeeded"
    /\ Pos("generate_analytics") < Pos("update_indices")
    /\ status["end_pipeline"] = "Skipped"
    /\ runState = "Failed"

\* C8: in every run of every declared graph, a task enters Running (and is
\* Running) only with each of its declared predecessors in a terminal
\* status.
C8_StartsAfterPredecessors ==
    /\ [][\A t \in Tasks(dag) :
            (status[t] # "Running" /\ status'[t] = "Running")
              => \A p \in DeclaredPreds(dag, t) : status[p] \in Terminal]_vars
    /\ [](\A t \in Tasks(dag) :
            status[t] = "Running"
              => \A p \in DeclaredPreds(dag, t) : status[p] \in Terminal)

\* Two tasks run concurrently, one of them being retried.
C8_Witness ==
    /\ dag = "healthcare_pricing_pipeline"
    /\ status["update_indices"] = "Running"
    /\ status["generate_analytics"] = "Running"
    /\ attempts["generate_analytics"] = 2

\* C9: when a run has ended every task has a terminal status and the run
\* is Failed exactly if some task is Failed, Completed otherwise; in the
\* diamond load_data -> {update_indices, generate_analytics} -> end_pipeline
\* with load_data and update_indices Succeeded and generate_analytics Failed
\* (after its one retry), end_pipeline is Skipped and the run is Failed.
C9_RunReport ==
    (runState \in {"Completed", "Failed"}) =>
        /\ \A t \in Tasks(dag) : status[t] \in Terminal
        /\ (runState = "Failed") <=> (\E t \in Tasks(dag) : status[t] = "Failed")
        /\ \A t \in Tasks(dag) : status[t] = "Failed" => attempts[t] = 2
        /\ (/\ dag = "healthcare_pricing_pipeline"
            /\ status["load_data"] = "Succeeded"
            /\ status["update_indices"] = "Succeeded"
            /\ status["generate_analytics"] = "Failed")
             => /\ attempts["generate_analytics"] = 2
                /\ status["end_pipeline"] = "Skipped"
                /\ runState = "Failed"

C9_Witness ==
    /\ dag = "healthcare_pricing_pipeline"
    /\ runState = "Failed"
    /\ status["load_data"] = "Succeeded"
    /\ attempts["load_data"] = 1
    /\ status["update_indices"] = "Succeeded"
    /\ status["generate_analytics"] = "Failed"
    /\ attempts["generate_analytics"] = 2
    /\ status["end_pipeline"] = "Skipped"

RunEnded ==
    /\ runState \in {"Completed", "Failed"}
    /\ \A t \in Tasks(dag) : status[t] \in Terminal

\* C10: every run of a declared graph, whatever the task outcomes, ends
\* Completed or Failed with every task terminal and stays so, and a task
\* whose predecessors have all Succeeded is eventually executed.
C10_RunTerminates ==
    /\ <>[]RunEnded
    /\ \A t \in AllTasks :
          (t \in Tasks(dag) /\ runState = "Running" /\ Ready(t))
            ~> (t \in Tasks(dag) /\ attempts[t] >= 1)

\* A run that ends Completed after a retry, the worker budget having been
\* used up on the way.
C10_Witness ==
    /\ dag = "healthcare_pricing_pipeline"
    /\ runState = "Completed"
    /\ attempts["end_pipeline"] = 2
    /\ attempts["update_indices"] = 2


\* C15: the number of Running tasks never exceeds the worker budget; a ready
\* task is not started while the budget is used up, stays Pending (it is
\* neither Skipped nor dropped) and is started later.
C15_WorkerBudget ==
    /\ [](NumRunning <= worker_budget)
    /\ [][\A t \in Tasks(dag) :
            (runState = "Running" /\ Ready(t) /\ NumRunning >= worker_budget)
              => (status'[t] = "Pending" /\ attempts'[t] = 0)]_vars
    /\ \A t \in {"update_indices", "generate_analytics"} :
          (/\ dag = "healthcare_pricing_pipeline"
           /\ runState = "Running"
           /\ Ready(t)
           /\ NumRunning >= worker_budget)
            ~> (dag = "healthcare_pricing_pipeline" /\ attempts[t] >= 1)

\* With a budget of one, generate_analytics waited while update_indices
\* ran and is running now.
C15_Witness ==
    /\ dag = "healthcare_pricing_pipeline"
    /\ worker_budget = 1
    /\ status["update_indices"] = "Failed"
    /\ Pos("update_indices") > 0
    /\ status["generate_analytics"] = "Running"


\* C16: construction over the declared edges plus one edge closing a cycle
\* (a self-edge included) ends in CycleError, and then no run starts: every
\* task stays Pending with its body never invoked.
C16_CycleRejected ==
    /\ [](added # <<>> =>
            /\ runState \in {"Unbuilt", "CycleError"}
            /\ \A t \in Tasks(dag) : status[t] = "Pending" /\ attempts[t] = 0)
    /\ [](runState = "CycleError" => added # <<>>)
    /\ [][runState = "CycleError" => UNCHANGED schedVars]_vars
    /\ [][(runState = "Unbuilt" /\ added # <<>>) => runState' = "CycleError"]_vars

\* A self-edge on a task in the middle of a chain was rejected.
C16_Witness ==
    /\ runState = "CycleError"
    /\ dag = "airbyte_integration_example"
    /\ added = <<"dbt_deps", "dbt_deps">>


\* The two callables of airbyte_integration_example that catch everything.
GuardedCallbacks == {"health_check", "get_connections"}

\* C18: check_airbyte_health and get_airbyte_connections return a value for
\* every outcome of their request (False / [] on error), so their tasks are
\* never Failed, never retried and never Skipped, example_sync is never
\* Skipped, and an unhealthy Airbyte leaves get_connections ready to run.
C18_CallbacksNeverFail ==
    /\ \A r \in HealthResponses :
          /\ check_airbyte_health(r).kind = "return"
          /\ r # "ok200" => check_airbyte_health(r).value = "False"
    /\ \A r \in ConnectionsResponses :
          /\ get_airbyte_connections(r).kind = "return"
          /\ r # "ok200" => get_airbyte_connections(r).value = "[]"
    /\ dag = "airbyte_integration_example" =>
          /\ \A t \in GuardedCallbacks :
                /\ status[t] \in {"Pending", "Running", "Succeeded"}
                /\ attempts[t] <= 1
          /\ status["example_sync"] # "Skipped"
          /\ status["health_check"] = "Succeeded"
                => /\ result["health_check"] \in {"True", "False"}
                   /\ status["get_connections"] = "Pending"
                         => Ready("get_connections")
          /\ status["get_connections"] = "Succeeded"
                => /\ result["get_connections"] \in {"connection_ids", "[]"}
                   /\ status["example_sync"] = "Pending" => Ready("example_sync")

\* Airbyte was unhealthy and listed no connection, and the run went on.
C18_Witness ==
    /\ dag = "airbyte_integration_example"
    /\ result["health_check"] = "False"
    /\ result["get_connections"] = "[]"
    /\ status["example_sync"] = "Succeeded"
    /\ status["dbt_deps"] = "Running"


\* The tasks transitively downstream of t by the declared edges.
DeclaredDescendants(d, t) == ReachIn(Edges(d), {t}, {})

\* C12: when a task becomes Failed, exactly the tasks downstream of it are
\* Skipped by that step and no other task changes; a Skipped task always
\* has a Failed task upstream; in healthcare_pricing_pipeline a Failed
\* update_indices (generate_analytics) leaves generate_analytics
\* (update_indices) unskipped, and it goes on to run and finish.
C12_FailureIsolation ==
    /\ [][\A t \in Tasks(dag) :
            (status[t] = "Running" /\ status'[t] = "Failed")
              => \A u \in Tasks(dag) \ {t} :
                    IF u \in DeclaredDescendants(dag, t)
                    THEN status'[u] = "Skipped" /\ attempts'[u] = 0
                    ELSE status'[u] = status[u]]_vars
    /\ [](\A u \in Tasks(dag) :
            status[u] = "Skipped"
              => \E t \in Tasks(dag) :
                    status[t] = "Failed" /\ u \in DeclaredDescendants(dag, t))
    /\ [](dag = "healthcare_pricing_pipeline" =>
            /\ status["update_indices"] = "Failed"
                  => status["generate_analytics"] # "Skipped"
            /\ status["generate_analytics"] = "Failed"
                  => status["update_indices"] # "Skipped")
    /\ (dag = "healthcare_pricing_pipeline" /\ status["update_indices"] = "Failed")
          ~> (/\ dag = "healthcare_pricing_pipeline"
              /\ status["generate_analytics"] \in {"Succeeded", "Failed"}
              /\ attempts["generate_analytics"] >= 1)
    /\ (dag = "healthcare_pricing_pipeline" /\ status["generate_analytics"] = "Failed")
          ~> (/\ dag = "healthcare_pricing_pipeline"
              /\ status["update_indices"] \in {"Succeeded", "Failed"}
              /\ attempts["update_indices"] >= 1)

\* update_indices failed while generate_analytics had not yet started;
\* generate_analytics then ran and succeeded.
C12_Witness ==
    /\ dag = "healthcare_pricing_pipeline"
    /\ worker_budget = 1
    /\ status["update_indices"] = "Failed"
    /\ status["generate_analytics"] = "Succeeded"
    /\ Pos("update_indices") < Pos("generate_analytics")
    /\ status["end_pipeline"] = "Skipped"

\* The status changes a single task may make.
AllowedMoves ==
    {<<"Pending", "Running">>, <<"Running", "Succeeded">>,
     <<"Running", "Failed">>, <<"Pending", "Skipped">>}

\* C13: in every run, retries included, a task's status changes only along
\* Pending -> Running -> {Succeeded, Failed} or Pending -> Skipped; a retry
\* leaves the task Running.
C13_MonotonicStatus ==
    /\ [][\A t \in Tasks(dag) :
            status'[t] # status[t] => <<status[t], status'[t]>> \in AllowedMoves]_vars
    /\ [][\A t \in Tasks(dag) :
            (attempts[t] >= 1 /\ attempts'[t] # attempts[t])
              => (status[t] = "Running" /\ status'[t] = "Running")]_vars

\* A retried task that succeeded, beside a Failed and a Skipped one.
C13_Witness ==
    /\ dag = "healthcare_pricing_pipeline"
    /\ status["update_indices"] = "Succeeded"
    /\ attempts["update_indices"] = 2
    /\ status["generate_analytics"] = "Failed"
    /\ status["end_pipeline"] = "Skipped"
    /\ runState = "Failed"

\* C14: at the step that makes load_data Succeeded both update_indices and
\* generate_analytics are ready; with a free worker slot either may start,
\* also while the other is Running.
C14_FanOut ==
    /\ [][(/\ dag = "healthcare_pricing_pipeline"
           /\ status["load_data"] # "Succeeded"
           /\ status'["load_data"] = "Succeeded")
            => (Ready("update_indices")' /\ Ready("generate_analytics")')]_vars
    /\ [](\A t \in {"update_indices", "generate_analytics"} :
            (/\ dag = "healthcare_pricing_pipeline"
             /\ runState = "Running"
             /\ status["load_data"] = "Succeeded"
             /\ status[t] = "Pending"
             /\ NumRunning < worker_budget)
              => ENABLED StartTask(t))

\* Both successors run at the same time, each on its first attempt.
C14_Witness ==
    /\ dag = "healthcare_pricing_pipeline"
    /\ worker_budget = 2
    /\ status["update_indices"] = "Running"
    /\ status["generate_analytics"] = "Running"
    /\ attempts["update_indices"] = 1
    /\ attempts["generate_analytics"] = 1

\* The one order in which the tasks of airbyte_integration_example run.
AirbyteOrder ==
    <<"health_check", "get_connections", "example_sync", "dbt_deps",
      "dbt_run_staging", "dbt_test_staging", "dbt_run_marts", "dbt_test_marts",
      "data_quality_check", "send_notification">>

IsPrefix(s, t) == Len(s) <= Len(t) /\ \A i \in 1..Len(s) : s[i] = t[i]

\* C17: the edges of lines 190 and 268 together are acyclic; in every run
\* of airbyte_integration_example data_quality_check is invoked only with
\* dbt_test_marts Succeeded, the tasks that execute do so in the order of
\* AirbyteOrder, and at most one task is Running at a time.
C17_AirbyteSingleOrder ==
    /\ ~HasCycle(AirbyteEdges)
    /\ dag = "airbyte_integration_example" =>
          /\ NumRunning <= 1
          /\ IsPrefix(order, AirbyteOrder)
          /\ \A i \in 1..Len(AirbyteOrder) :
                attempts[AirbyteOrder[i]] >= 1
                  => \A j \in 1..(i - 1) : status[AirbyteOrder[j]] = "Succeeded"
          /\ attempts["data_quality_check"] >= 1
                => (status["dbt_test_marts"] = "Succeeded"
                    /\ status["example_sync"] = "Succeeded")

C17_Witness ==
    /\ dag = "airbyte_integration_example"
    /\ worker_budget = 2
    /\ runState = "Completed"
    /\ order = AirbyteOrder
    /\ attempts["dbt_test_marts"] = 2

====
